---- MODULE Spec2Model ----
(***************************************************************************)
(* Model of scholar_department_extract.py: the cache store (cache_get),    *)
(* the block classifier, the listing paginator (get_all_author_pubs), the  *)
(* per-publication detail loop (process_one_professor) and the roster      *)
(* driver (process_department_csv).                                        *)
(*                                                                         *)
(* Text is a sequence of tokens (strings); an HTML body is a record of its *)
(* raw text tokens and of the DOM parts the selectors of the code read.    *)
(* Optional values are None / Some(v).                                     *)
(***************************************************************************)
EXTENDS Integers, Sequences, FiniteSets, TLC

None == [some |-> FALSE]
Some(v) == [some |-> TRUE, v |-> v]

(* ---------------- program constants ---------------- *)
YEAR_MIN == 2015
YEAR_MAX == 2026
PageSize == 100
SafetyPages == 500
BASE == <<"https://scholar.google.com">>

(* ---------------- bounds of the model ---------------- *)
MaxRuns == 2

(* ---------------- text ---------------- *)
\* str.lower() on one token: every token of the pages that has an upper-case
\* letter is listed, any other token is its own lower case
LowerTok(t) ==
    CASE t = "reCAPTCHA" -> "recaptcha"
      [] t = "Unusual Traffic" -> "unusual traffic"
      [] t = "Sorry" -> "sorry"
      [] t = "Automated Queries" -> "automated queries"
      [] t = "Citations" -> "citations"
      [] t = "Cited" -> "cited"
      [] t = "Cited by" -> "cited by"
      [] t = "A" -> "a"
      [] t = "B" -> "b"
      [] t = "We" -> "we"
      [] t = "Paper A" -> "paper a"
      [] t = "Paper B" -> "paper b"
      [] t = "Paper C" -> "paper c"
      [] t = "Paper D" -> "paper d"
      [] t = "Paper E" -> "paper e"
      [] t = "Paper F" -> "paper f"
      [] t = "Paper A (full)" -> "paper a (full)"
      [] t = "Paper C (old)" -> "paper c (old)"
      [] t = "Paper A link" -> "paper a link"
      [] t = "Paper B link" -> "paper b link"
      [] t = "Paper D link" -> "paper d link"
      [] t = "Are you a robot?" -> "are you a robot?"
      [] t = "By id" -> "by id"
      [] t = "By link" -> "by link"
      [] t = "Authors" -> "authors"
      [] t = "Publication date" -> "publication date"
      [] t = "Description" -> "description"
      [] t = "Total citations" -> "total citations"
      [] OTHER -> t

Lower(s) == [k \in 1..Len(s) |-> LowerTok(s[k])]

\* "needle in haystack" for a needle that is one token
Contains(s, needle) == \E k \in 1..Len(s) : s[k] = needle

\* open(path, "w", encoding="utf-8") on this platform writes the text as given
WriteFile(text) == text

\* open(path, "r") reads with universal newlines: "\r\n" and "\r" become "\n"
RECURSIVE ReadFile(_)
ReadFile(data) ==
    IF data = <<>> THEN <<>>
    ELSE IF Head(data) = "\r"
         THEN IF Len(data) >= 2 /\ data[2] = "\n"
              THEN <<"\n">> \o ReadFile(Tail(Tail(data)))
              ELSE <<"\n">> \o ReadFile(Tail(data))
         ELSE <<Head(data)>> \o ReadFile(Tail(data))

\* the same translation on a piece of the file that is one token, on an
\* optional token and on an optional sequence of tokens
ReadTok(t) == IF t = "\r" THEN "\n" ELSE t
ReadOptTok(o) == IF o.some THEN Some(ReadTok(o.v)) ELSE o
ReadOptSeq(o) == IF o.some THEN Some(ReadFile(o.v)) ELSE o

\* the body as stored in the cache file: every part is written as given
StoreBody(html) == [html EXCEPT !.text = WriteFile(@)]

\* the body as read from the cache file: the whole file goes through the
\* translation, the text of every element and attribute with it. The blobs
\* hold digits only and the state of the next button is no text
LoadBody(file) ==
    [text |-> ReadFile(file.text),
     rows |-> [k \in 1..Len(file.rows) |->
                  [a |-> file.rows[k].a,
                   title |-> ReadTok(file.rows[k].title),
                   href |-> ReadOptSeq(file.rows[k].href),
                   year |-> ReadOptTok(file.rows[k].year),
                   cited |-> ReadOptTok(file.rows[k].cited)]],
     next |-> file.next,
     title_id |-> ReadOptTok(file.title_id),
     title_link |-> ReadOptTok(file.title_link),
     field_labels |-> [k \in 1..Len(file.field_labels) |-> ReadTok(file.field_labels[k])],
     field_values |-> [k \in 1..Len(file.field_values) |-> ReadFile(file.field_values[k])],
     pair_blobs |-> file.pair_blobs,
     years_blob |-> file.years_blob,
     cites_blob |-> file.cites_blob,
     aria |-> [k \in 1..Len(file.aria) |-> ReadFile(file.aria[k])],
     inner |-> ReadFile(file.inner)]

(* ---------------- the page source ---------------- *)
RECURSIVE Flatten(_)
Flatten(ss) == IF ss = <<>> THEN <<>> ELSE Head(ss) \o Flatten(Tail(ss))

\* the tags between two pieces of text of the page source
Markup == "</div><div>"

\* a piece of text as it stands in the page source, inside its element or
\* attribute: markup comes before it
InSource(s) == <<Markup>> \o s
OptTokInSource(o) == IF o.some THEN InSource(<<o.v>>) ELSE <<>>
OptSeqInSource(o) == IF o.some THEN InSource(o.v) ELSE <<>>

\* the field values as they stand in the page source, each inside its element
RECURSIVE ValuesInSource(_)
ValuesInSource(values) ==
    IF values = <<>> THEN <<>>
    ELSE InSource(Head(values)) \o ValuesInSource(Tail(values))

\* the rows of a listing page as they stand in the page source
RECURSIVE RowsInSource(_)
RowsInSource(trs) ==
    IF trs = <<>> THEN <<>>
    ELSE (IF Head(trs).a
          THEN OptSeqInSource(Head(trs).href) \o InSource(<<Head(trs).title>>)
          ELSE <<>>)
         \o OptTokInSource(Head(trs).year) \o OptTokInSource(Head(trs).cited)
         \o RowsInSource(Tail(trs))

\* the field labels, one token each
RECURSIVE LabelsInSource(_)
LabelsInSource(labels) ==
    IF labels = <<>> THEN <<>>
    ELSE InSource(<<Head(labels)>>) \o LabelsInSource(Tail(labels))

\* the [[y,c],...] blobs: the digits of one blob stand together
RECURSIVE BlobsInSource(_)
BlobsInSource(blobs) ==
    IF blobs = <<>> THEN <<>>
    ELSE InSource(Flatten(Head(blobs))) \o BlobsInSource(Tail(blobs))

\* the page source, the str the code calls html (page.content() for a rendered
\* page): the raw text, then the text of every element and attribute of the
\* page, with markup between them
Source(html) ==
    html.text
    \o RowsInSource(html.rows)
    \o OptTokInSource(html.title_id) \o OptTokInSource(html.title_link)
    \o LabelsInSource(html.field_labels)
    \o ValuesInSource(html.field_values)
    \o BlobsInSource(html.pair_blobs)
    \o OptSeqInSource(html.years_blob) \o OptSeqInSource(html.cites_blob)
    \o ValuesInSource(html.aria)
    \o InSource(html.inner)

(* ---------------- block classifiers ---------------- *)
looks_like_captcha(html) ==
    LET h == Lower(Source(html))
    IN  Contains(h, "recaptcha") \/ Contains(h, "unusual traffic")
        \/ (Contains(h, "sorry") /\ Contains(h, "automated queries"))

\* the check on page.content() in extract_cites_by_year_playwright
rendered_blocked(page) ==
    LET body == Lower(Source(page))
    IN  Contains(body, "unusual traffic") \/ Contains(body, "automated queries")
        \/ Contains(body, "recaptcha")

(* ---------------- numbers in text ---------------- *)
\* int() of the digit tokens that occur in the pages of this model
IntOf ==
    ("0000" :> 0) @@ ("2014" :> 2014) @@ ("2019" :> 2019) @@ ("2020" :> 2020)
    @@ ("2021" :> 2021) @@ ("2022" :> 2022) @@ ("2027" :> 2027)
    @@ ("0" :> 0) @@ ("1" :> 1) @@ ("2" :> 2) @@ ("3" :> 3) @@ ("4" :> 4)
    @@ ("5" :> 5) @@ ("7" :> 7) @@ ("9" :> 9) @@ ("10" :> 10) @@ ("12" :> 12)

\* str.isdigit() on one token: the whole token is digits
IsDigits(t) == t \in DOMAIN IntOf
\* \d{4} on one token: the token holds four digits in a row. The tokens of the
\* model that do are four digits and nothing else
IsFourDigits(t) == t \in {"0000", "2014", "2019", "2020", "2021", "2022", "2027"}

\* \d+ right after white space: the digits the token starts with, "" if it
\* starts with none
DigitsAtStart(t) ==
    IF IsDigits(t) THEN t
    ELSE IF t = "3*" THEN "3"
    ELSE ""

\* \d+ right before white space: the digits the token ends with, "" if it ends
\* with none
DigitsAtEnd(t) ==
    CASE IsDigits(t) -> t
      [] t = "view=p1" -> "1"
      [] t = "view=p2" -> "2"
      [] t = "view=p3" -> "3"
      [] t = "view=p4" -> "4"
      [] t = "view=p5" -> "5"
      [] t = "u1" -> "1"
      [] t = "u2" -> "2"
      [] t = "u9" -> "9"
      [] OTHER -> ""

\* re.search(r"(\d{4})", s): the index of the first four-digit token, 0 if none
FirstFourDigits(s) ==
    IF \E k \in 1..Len(s) : IsFourDigits(s[k])
    THEN CHOOSE k \in 1..Len(s) :
            IsFourDigits(s[k]) /\ \A j \in 1..(k-1) : ~IsFourDigits(s[j])
    ELSE 0

\* a python dict as a function; d[k] = v of the code
EmptyDict == [k \in {} |-> 0]
DictPut(d, k, v) == [x \in DOMAIN d \cup {k} |-> IF x = k THEN v ELSE d[x]]
DictGet(d, k) == IF k \in DOMAIN d THEN Some(d[k]) ELSE None

\* python truthiness of an optional int / optional str
TruthyInt(o) == o.some /\ o.v # 0
TruthyStr(o) == o.some /\ o.v # ""

(* ---------------- roster and profile ids ---------------- *)
\* str.strip() on a sequence of characters
RECURSIVE LStrip(_)
LStrip(s) == IF s # <<>> /\ Head(s) = " " THEN LStrip(Tail(s)) ELSE s
RECURSIVE RStrip(_)
RStrip(s) ==
    IF s # <<>> /\ s[Len(s)] = " " THEN RStrip(SubSeq(s, 1, Len(s) - 1)) ELSE s
Strip(s) == RStrip(LStrip(s))

\* a CSV cell as pandas gives it: the float NaN, or a str
NaN == [type |-> "float", s |-> <<>>]
Str(s) == [type |-> "str", s |-> s]
\* str(x): str(float('nan')) is "nan"
PyStr(x) == IF x.type = "float" THEN <<"n", "a", "n">> ELSE x.s

\* re.search(r"[?&]user=([^&]+)", url): the url is its base and its query
\* parameters <<key, value>>; the match is the first "user" parameter with
\* a non-empty value
scholar_author_id_from_url(url) ==
    IF url.type # "str" \/ url.s = <<>> THEN None
    ELSE LET q == url.s
             hit(k) == q[k][1] = "user" /\ q[k][2] # ""
         IN  IF \E k \in 2..Len(q) : hit(k)
             THEN Some(q[CHOOSE k \in 2..Len(q) :
                            hit(k) /\ \A j \in 2..(k-1) : ~hit(j)][2])
             ELSE None

(* ---------------- white space ---------------- *)
\* the tokens that are a line break; like the blank between two tokens, a line
\* break is white space (\s)
IsBreak(t) == t \in {"\r", "\n"}

\* s without its line breaks: two tokens that \s+ joins are neighbours in it
RECURSIVE NoBreaks(_)
NoBreaks(s) ==
    IF s = <<>> THEN <<>>
    ELSE (IF IsBreak(Head(s)) THEN <<>> ELSE <<Head(s)>>) \o NoBreaks(Tail(s))

\* get_text(" ", strip=True) of an element with one piece of text: the white
\* space at both ends is dropped, line breaks included
RECURSIVE LStripBreaks(_)
LStripBreaks(s) == IF s # <<>> /\ IsBreak(Head(s)) THEN LStripBreaks(Tail(s)) ELSE s
RECURSIVE RStripBreaks(_)
RStripBreaks(s) ==
    IF s # <<>> /\ IsBreak(s[Len(s)]) THEN RStripBreaks(SubSeq(s, 1, Len(s) - 1)) ELSE s
StripBreaks(s) == RStripBreaks(LStripBreaks(s))

\* get_text(strip=True) of an element whose text is one token
StripTok(t) == IF IsBreak(t) THEN "" ELSE t

(* ---------------- listing pages ---------------- *)
\* one <tr class="gsc_a_tr">: a = FALSE when it has no a.gsc_a_at; href, year
\* (span.gsc_a_h) and cited (a.gsc_a_ac) are None when the attribute or the
\* element is missing, else the token(s) of its text
ParseRow(tr) ==
    [title |-> StripTok(tr.title),
     year |-> IF tr.year.some /\ IsDigits(tr.year.v)
              THEN Some(IntOf[tr.year.v]) ELSE None,
     cited_by_from_list |-> IF tr.cited.some /\ IsDigits(tr.cited.v)
                            THEN Some(IntOf[tr.cited.v]) ELSE None,
     view_citation_url |-> IF tr.href.some /\ tr.href.v # <<>> /\ tr.href.v[1] = "/"
                           THEN Some(BASE \o tr.href.v) ELSE tr.href]

RECURSIVE ParseRows(_)
ParseRows(trs) ==
    IF trs = <<>> THEN <<>>
    ELSE IF ~Head(trs).a THEN ParseRows(Tail(trs))
         ELSE <<ParseRow(Head(trs))>> \o ParseRows(Tail(trs))

parse_author_page_for_pubs(html) == ParseRows(html.rows)

\* html.next is the state of button#gsc_bpf_next: "absent", "disabled", "enabled";
\* the result is the sentinel 1 ("has next") or None
next_cstart_from_author_page(html) ==
    IF html.next = "absent" THEN None
    ELSE IF html.next = "disabled" THEN None
    ELSE Some(1)

(* ---------------- detail pages ---------------- *)
\* dict built from zip(select(".gsc_oci_field"), select(".gsc_oci_value")):
\* fields[f.get_text(strip=True)] = v.get_text(" ", strip=True)
RECURSIVE ZipFields(_, _, _)
ZipFields(labels, values, d) ==
    IF labels = <<>> \/ values = <<>> THEN d
    ELSE ZipFields(Tail(labels), Tail(values),
                   DictPut(d, StripTok(Head(labels)), StripBreaks(Head(values))))

\* re.search(r"Cited by\s+(\d+)", s): the first "Cited by" whose next token
\* starts with digits, and those digits
CitedByIn(s) ==
    LET t == NoBreaks(s)
        hit(k) == t[k] = "Cited by" /\ k < Len(t) /\ DigitsAtStart(t[k + 1]) # ""
    IN  IF \E k \in 1..Len(t) : hit(k)
        THEN Some(IntOf[DigitsAtStart(t[(CHOOSE k \in 1..Len(t) :
                                            hit(k) /\ \A j \in 1..(k-1) : ~hit(j)) + 1])])
        ELSE None

\* for y, c in pairs: cites_by_year[int(y)] = int(c)
RECURSIVE PairsToDict(_, _)
PairsToDict(pairs, d) ==
    IF pairs = <<>> THEN d
    ELSE PairsToDict(Tail(pairs), DictPut(d, IntOf[Head(pairs)[1]], IntOf[Head(pairs)[2]]))

\* for y, c in zip(years, cites): cites_by_year[y] = c
RECURSIVE ZipToDict(_, _, _)
ZipToDict(years, cites, d) ==
    IF years = <<>> \/ cites = <<>> THEN d
    ELSE ZipToDict(Tail(years), Tail(cites),
                   DictPut(d, IntOf[Head(years)], IntOf[Head(cites)]))

\* html.pair_blobs: the [[y,c],...] blobs of the source in order (Pattern A needs
\* two pairs at least); html.years_blob / html.cites_blob: the arrays after
\* "years=" and "cites=" (Pattern B needs two entries at least in each)
PatternA(html) ==
    LET blobs == html.pair_blobs
        hit(k) == Len(blobs[k]) >= 2
    IN  IF \E k \in 1..Len(blobs) : hit(k)
        THEN Some(blobs[CHOOSE k \in 1..Len(blobs) :
                            hit(k) /\ \A j \in 1..(k-1) : ~hit(j)])
        ELSE None

PatternB(html) ==
    IF html.years_blob.some /\ html.cites_blob.some
       /\ Len(html.years_blob.v) >= 2 /\ Len(html.cites_blob.v) >= 2
    THEN Some([years |-> html.years_blob.v, cites |-> html.cites_blob.v])
    ELSE None

\* Pattern B consulted before Pattern A
CitesByYearOf_PatternBFirst(html) ==
    LET m == PatternA(html)
        m2 == PatternB(html)
    IN  IF m2.some THEN ZipToDict(m2.v.years, m2.v.cites, EmptyDict)
        ELSE IF m.some THEN PairsToDict(m.v, EmptyDict)
        ELSE EmptyDict

CitesByYearOf(html) ==
    LET m == PatternA(html)
        m2 == PatternB(html)
    IN  IF m.some THEN PairsToDict(m.v, EmptyDict)
        ELSE IF m2.some THEN ZipToDict(m2.v.years, m2.v.cites, EmptyDict)
        ELSE EmptyDict

\* the title taken from #gsc_oci_title only
TitleOf_NoLinkFallback(html) ==
    IF html.title_id.some THEN Some(StripTok(html.title_id.v)) ELSE None

\* lines 204-211: html.title_id is the text of #gsc_oci_title, html.title_link
\* the text of .gsc_oci_title_link, None when the element is missing
TitleOf(html) ==
    IF html.title_id.some THEN Some(StripTok(html.title_id.v))
    ELSE IF html.title_link.some THEN Some(StripTok(html.title_link.v))
    ELSE None

parse_view_citation(html) ==
    LET title == TitleOf(html)
        fields == ZipFields(html.field_labels, html.field_values, EmptyDict)
        pub_date == DictGet(fields, "Publication date")
        y4 == IF pub_date.some THEN FirstFourDigits(pub_date.v) ELSE 0
        pub_year == IF y4 # 0 THEN Some(IntOf[pub_date.v[y4]]) ELSE None
        from_field == IF "Total citations" \in DOMAIN fields
                      THEN CitedByIn(fields["Total citations"]) ELSE None
        cited_by_total == IF from_field.some THEN from_field
                          ELSE CitedByIn(Source(html))
    IN  [title |-> title,
         pub_year |-> pub_year,
         cited_by_total |-> cited_by_total,
         abstract |-> DictGet(fields, "Description"),
         cites_by_year |-> CitesByYearOf(html)]

cites_2015_2026(cites_by_year) ==
    [y \in YEAR_MIN..YEAR_MAX |-> DictGet(cites_by_year, y)]

(* ---------------- rendered pages ---------------- *)
\* the token starts with "cit": what follows \s+ in the two regexes
IsCit(t) == t \in {"cit", "citation", "citations", "cites", "cited", "cited by"}

\* re.search(r"(\d{4}).*?(\d+)\s+cit", txt) on one aria-label: the leftmost
\* year a, then the nearest token k after it that ends with digits and has
\* "cit" next; the count is those digits. "." does not match "\n", so no "\n"
\* stands between the two, while \s+ before "cit" passes over line breaks
AriaMatch(txt) ==
    LET word(k) == IF \E j \in (k + 1)..Len(txt) : ~IsBreak(txt[j])
                   THEN CHOOSE j \in (k + 1)..Len(txt) :
                            ~IsBreak(txt[j]) /\ \A m \in (k + 1)..(j - 1) : IsBreak(txt[m])
                   ELSE 0
        hit(a, k) == /\ IsFourDigits(txt[a])
                     /\ DigitsAtEnd(txt[k]) # ""
                     /\ \A m \in (a + 1)..(k - 1) : txt[m] # "\n"
                     /\ word(k) # 0
                     /\ IsCit(txt[word(k)])
        from(a) == \E k \in (a + 1)..Len(txt) : hit(a, k)
    IN  IF \E a \in 1..Len(txt) : from(a)
        THEN LET a == CHOOSE x \in 1..Len(txt) : from(x) /\ \A y \in 1..(x - 1) : ~from(y)
                 k == CHOOSE x \in (a + 1)..Len(txt) :
                          hit(a, x) /\ \A y \in (a + 1)..(x - 1) : ~hit(a, y)
             IN  Some(<<txt[a], DigitsAtEnd(txt[k])>>)
        ELSE None

RECURSIVE AriaScan(_, _)
AriaScan(nodes, cites) ==
    IF nodes = <<>> THEN cites
    ELSE LET m == AriaMatch(Lower(Head(nodes)))
         IN  AriaScan(Tail(nodes),
                      IF m.some THEN DictPut(cites, IntOf[m.v[1]], IntOf[m.v[2]])
                      ELSE cites)

\* re.finditer(r"(\d{4})\s+(\d+)\s+cit", text), text without its line breaks:
\* the count stands between white space, so it is a whole token
RECURSIVE TextScan(_, _)
TextScan(txt, cites) ==
    IF Len(txt) < 3 THEN cites
    ELSE IF IsFourDigits(txt[1]) /\ IsDigits(txt[2]) /\ IsCit(txt[3])
         THEN TextScan(SubSeq(txt, 4, Len(txt)),
                       DictPut(cites, IntOf[txt[1]], IntOf[txt[2]]))
         ELSE TextScan(Tail(txt), cites)

\* the scans of extract_cites_by_year_playwright on a loaded page: page.aria is
\* the aria-label of every node matching [aria-label*='citations'], page.inner
\* the inner text of the body
RenderedScan(page) ==
    LET cites == AriaScan(page.aria, EmptyDict)
    IN  IF cites = EmptyDict THEN TextScan(NoBreaks(Lower(page.inner)), EmptyDict)
        ELSE cites

\* the proxy without the floor of the denominator at 1
citations_per_year_proxy_NoFloor(total_cites, pub_year, now_year) ==
    IF ~total_cites.some \/ ~pub_year.some THEN None
    ELSE Some(<<total_cites.v, now_year - pub_year.v + 1>>)

(* ---------------- metric ---------------- *)
\* the float total/denom is kept as the pair <<total, denom>>
citations_per_year_proxy(total_cites, pub_year, now_year) ==
    IF ~total_cites.some \/ ~pub_year.some THEN None
    ELSE LET denom == now_year - pub_year.v + 1
         IN  Some(<<total_cites.v, IF denom <= 0 THEN 1 ELSE denom>>)

(* ---------------- the site: the pages the server can return ---------------- *)
BlankPage ==
    [text |-> <<"x">>, rows |-> <<>>, next |-> "absent",
     title_id |-> None, title_link |-> None,
     field_labels |-> <<>>, field_values |-> <<>>,
     pair_blobs |-> <<>>, years_blob |-> None, cites_blob |-> None,
     aria |-> <<>>, inner |-> <<>>]

TR(title, href, year, cited) ==
    [a |-> TRUE, title |-> title, href |-> href, year |-> year, cited |-> cited]
NoLinkRow == [a |-> FALSE, title |-> "", href |-> None, year |-> None, cited |-> None]

RowA == TR("Paper A", Some(<<"/", "view=p1">>), Some("2020"), Some("12"))
RowB == TR("Paper B", Some(<<"/", "view=p2">>), Some("2019"), Some("3"))
RowC == TR("Paper C", Some(<<"/", "view=p3">>), Some("n.d."), Some("3*"))
RowD == TR("Paper D", Some(<<"https://scholar.google.com", "/", "view=p4">>), None, None)
RowE == TR("Paper E", Some(<<"/", "view=p5">>), Some("2021"), Some("0"))
\* a title link without an href attribute: a.get("href") is None
RowF == TR("Paper F", None, Some("2022"), Some("1"))

ListA == [BlankPage EXCEPT !.text = <<"x", "\r", "\n", "y">>,
                           !.rows = <<RowA, NoLinkRow, RowB>>, !.next = "enabled"]
ListB == [BlankPage EXCEPT !.rows = <<RowC>>, !.next = "disabled"]
ListC == [BlankPage EXCEPT !.rows = <<RowC>>, !.next = "enabled"]
ListD == [BlankPage EXCEPT !.rows = <<RowD>>]
ListF == [BlankPage EXCEPT !.rows = <<RowF>>]
ListEmpty == [BlankPage EXCEPT !.text = <<"x", "Sorry">>]
ListEmptyMore == [BlankPage EXCEPT !.next = "enabled"]
ListBlocked == [BlankPage EXCEPT !.text = <<"x", "Unusual Traffic">>]
ListEndless == [BlankPage EXCEPT !.rows = <<RowE>>, !.next = "enabled"]

OkResp(body) == [status |-> "ok", body |-> body]
\* a connection error, a timeout or a non-success status
FailResp == [status |-> "error", body |-> BlankPage]

\* what GET <BASE>/citations?hl=en&user=<user_id>&cstart=<cstart>&pagesize=100
\* can answer
ListingResponses(user_id, cstart) ==
    CASE user_id = "u1" /\ cstart = 0 ->
            {OkResp(ListA), OkResp(ListBlocked), FailResp}
      [] user_id = "u1" /\ cstart = PageSize ->
            {OkResp(ListB), OkResp(ListC), OkResp(ListEmptyMore), FailResp}
      [] user_id = "u2" /\ cstart = 0 ->
            {OkResp(ListD), OkResp(ListEmpty), OkResp(ListF)}
      [] user_id = "endless" -> {OkResp(ListEndless)}
      [] OTHER -> {OkResp(ListEmpty)}

DetailFull ==
    [BlankPage EXCEPT !.title_id = Some("Paper A (full)"),
                      !.title_link = Some("Paper A link"),
                      !.field_labels = <<"Authors", "Publication date", "Description",
                                         "Total citations">>,
                      !.field_values = <<<<"A", "B">>, <<"2020", "/", "3">>,
                                         <<"We", "study">>, <<"Cited by", "7">>>>,
                      !.pair_blobs = <<<<<<"2019", "3">>, <<"2020", "7">>>>>>]
DetailSparse == [BlankPage EXCEPT !.title_link = Some("Paper B link")]
DetailZero ==
    [BlankPage EXCEPT !.text = <<"x", "Cited by", "0">>,
                      !.field_labels = <<"Publication date">>,
                      !.field_values = <<<<"0000", "/", "3">>>>]
DetailOld ==
    [BlankPage EXCEPT !.text = <<"a", "\r", "b">>,
                      !.title_id = Some("Paper C (old)"),
                      !.field_labels = <<"Publication date", "Total citations">>,
                      !.field_values = <<<<"2014">>, <<"12">>>>,
                      !.years_blob = Some(<<"2019", "2020">>),
                      !.cites_blob = Some(<<"3", "7">>)]
DetailFuture ==
    [BlankPage EXCEPT !.title_link = Some("Paper D link"),
                      !.field_labels = <<"Publication date", "Total citations">>,
                      !.field_values = <<<<"2027", "/", "1">>,
                                         <<"\r", "\n", "Cited by", "\r", "10", "\n">>>>]
DetailBlocked == [BlankPage EXCEPT !.text = <<"reCAPTCHA">>,
                                   !.title_id = Some("Are you a robot?")]
\* the markers are in the text of two elements, not in the raw text
DetailSorry ==
    [BlankPage EXCEPT !.title_id = Some("Sorry"),
                      !.field_labels = <<"Description">>,
                      !.field_values = <<<<"\n", "Automated Queries", "\r">>>>]

\* what GET <view_citation_url> can answer
DetailResponses(view_url) ==
    LET id == view_url[Len(view_url)]
    IN  CASE id = "view=p1" -> {OkResp(DetailFull), OkResp(DetailBlocked)}
          [] id = "view=p2" -> {OkResp(DetailSparse), OkResp(DetailZero), FailResp}
          [] id = "view=p3" -> {OkResp(DetailOld), OkResp(DetailSparse), OkResp(DetailSorry)}
          [] id = "view=p4" -> {OkResp(DetailSparse), OkResp(DetailFuture)}
          [] OTHER -> {OkResp(DetailSparse)}

RenderedNone == BlankPage
RenderedAria ==
    [BlankPage EXCEPT !.aria = <<<<"2021", ":", "3", "Citations", "citations">>>>,
                      !.inner = <<"2019", "7", "citations">>]
RenderedText == [BlankPage EXCEPT !.inner = <<"Cited", "2020", "12", "citations">>]
RenderedBlocked == [BlankPage EXCEPT !.text = <<"Automated Queries">>]

\* what page.goto(view_citation_url) can load; "error" is a navigation timeout
RenderedResponses(view_url) ==
    LET id == view_url[Len(view_url)]
    IN  CASE id = "view=p1" -> {OkResp(RenderedNone), OkResp(RenderedAria)}
          [] id = "view=p2" -> {OkResp(RenderedNone), OkResp(RenderedBlocked)}
          [] id = "view=p3" -> {OkResp(RenderedText), FailResp}
          [] OTHER -> {OkResp(RenderedNone)}

(* ---------------- rosters ---------------- *)
Chars(name) ==
    CASE name = "Ann" -> <<"A", "n", "n">>
      [] name = " Bob " -> <<" ", "B", "o", "b", " ">>
      [] name = "  " -> <<" ", " ">>
      [] OTHER -> <<>>

ProfileUrl(user_id) ==
    Str(<<<<"", "https://scholar.google.com/citations">>, <<"hl", "en">>,
          <<"user", user_id>>>>)
NoIdUrl == Str(<<<<"", "https://scholar.google.com/citations">>, <<"hl", "en">>,
                 <<"user", "">>>>)
BlankUrl == Str(<<>>)

Entry(name, url) == [name |-> name, url |-> url]

Rosters ==
    { <<Entry(Str(Chars("  ")), ProfileUrl("u1")), Entry(Str(Chars("Ann")), NaN),
        Entry(Str(Chars("Ann")), ProfileUrl("u1")), Entry(Str(Chars(" Bob ")), NoIdUrl),
        Entry(Str(Chars(" Bob ")), ProfileUrl("u2"))>>,
      <<Entry(Str(Chars(" Bob ")), ProfileUrl("u2")), Entry(Str(Chars("Ann")), BlankUrl),
        Entry(NaN, ProfileUrl("u1"))>> }

EndlessRoster == <<Entry(Str(Chars("Ann")), ProfileUrl("endless"))>>

(* ---------------- state ---------------- *)
VARIABLES
    roster,        \* the rows of the input CSV (df.iterrows())
    max_faculty,   \* --max_faculty
    max_pubs,      \* --max_pubs_per_faculty
    single_user_id, \* --single_user_id, None when not given
    cache,         \* the cache directory: cache_path -> file content
    run,           \* number of the current invocation of the script
    pc,            \* where the run is
    err,           \* the exception that ended the run, "none" if none
    idx,           \* position of the roster loop
    n,             \* process_department_csv: n
    all_frames,    \* process_department_csv: all_frames
    user_id,       \* the current author
    faculty_name,
    pubs_all,      \* get_all_author_pubs: pubs_all, then process_one_professor: pubs
    cstart,        \* get_all_author_pubs: cstart
    page,          \* get_all_author_pubs: page
    i,             \* process_one_professor: i
    rows,          \* process_one_professor: rows
    html,          \* the last body cache_get returned
    pw,            \* the page the headless browser loaded for the current publication, if any
    out_csv,       \* the rows written to out_csv, None before to_csv
    single_out_csv, \* the rows written to single_out_csv, None before to_csv
    returned,      \* history: cache_path -> the successful cache_get calls on it
    listReq,       \* history: the offsets requested by the current paginator call
    applied,       \* history: the extraction functions the last step applied, with their input
    started,       \* history: the roster positions process_one_professor was called for
    call,          \* a single function call: its arguments and, once made, its result
    origin         \* history: detail cache_path -> the URL its entry was fetched from

vars == <<roster, max_faculty, max_pubs, single_user_id, single_out_csv, cache, run,
          pc, err, idx, n, all_frames,
          user_id, faculty_name, pubs_all, cstart, page, i, rows, html, pw,
          out_csv, returned, listReq, applied, started, call, origin>>

config == <<roster, max_faculty, max_pubs, single_user_id>>
deptVars == <<idx, n, all_frames, user_id, faculty_name>>
pagerVars == <<pubs_all, cstart, page, listReq>>

\* os.path.join(cache_dir, tree, user_id, "cstart_<k>.html" / "pub_<k>.html")
CachePath(tree, user, k) == [tree |-> tree, user |-> user, k |-> k]

(* ---------------- cache_get ---------------- *)
\* cache_get with the file written before raise_for_status
cache_get_WriteFirst(resp, cache_path, force, files) ==
    IF ~force /\ cache_path \in DOMAIN files
    THEN [raised |-> FALSE, html |-> LoadBody(files[cache_path]),
          cache |-> files, net |-> FALSE]
    ELSE [raised |-> resp.status # "ok", html |-> resp.body,
          cache |-> [f \in DOMAIN files \cup {cache_path} |->
                        IF f = cache_path THEN StoreBody(resp.body) ELSE files[f]],
          net |-> TRUE]

\* cache_get that never looks at the cache, as with force=True
cache_get_AlwaysFetch(resp, cache_path, force, files) ==
    IF resp.status # "ok"
    THEN [raised |-> TRUE, html |-> resp.body, cache |-> files, net |-> TRUE]
    ELSE [raised |-> FALSE, html |-> resp.body,
          cache |-> [f \in DOMAIN files \cup {cache_path} |->
                        IF f = cache_path THEN StoreBody(resp.body) ELSE files[f]],
          net |-> TRUE]

\* resp is what requests.get(url) answers if it is called. The result: raised
\* (requests.get or raise_for_status raised), html (the return value), cache
\* (the cache directory afterwards), net (a network request was made)
cache_get(resp, cache_path, force, files) ==
    IF ~force /\ cache_path \in DOMAIN files
    THEN [raised |-> FALSE, html |-> LoadBody(files[cache_path]),
          cache |-> files, net |-> FALSE]
    ELSE IF resp.status # "ok"
    THEN [raised |-> TRUE, html |-> resp.body, cache |-> files, net |-> TRUE]
    ELSE [raised |-> FALSE, html |-> resp.body,
          cache |-> [f \in DOMAIN files \cup {cache_path} |->
                        IF f = cache_path THEN StoreBody(resp.body) ELSE files[f]],
          net |-> TRUE]

\* the history of the successful calls
Log(hist, cache_path, r) ==
    IF r.raised THEN hist
    ELSE [f \in DOMAIN hist \cup {cache_path} |->
            (IF f \in DOMAIN hist THEN hist[f] ELSE <<>>)
            \o (IF f = cache_path THEN <<[net |-> r.net, html |-> r.html]>> ELSE <<>>)]

\* no single call is under way: the pipeline runs
NoCall == [fn |-> "none"]

\* the values of --single_user_id: not given (department mode), an author of
\* the site, an author without publications
SingleUserIds == {None, Some("u1"), Some("u9")}

\* --single_name
single_name == Chars("Ann")

\* the values of --max_pubs_per_faculty (type=int): not given, a negative
\* count, positive counts
MaxPubsChoices == {None, Some(-1), Some(1), Some(3)}

Init ==
    /\ roster \in Rosters
    /\ max_faculty \in {None, Some(1)}
    /\ max_pubs \in MaxPubsChoices
    /\ single_user_id \in SingleUserIds
    /\ single_out_csv = None
    /\ cache = EmptyDict
    /\ run = 1
    /\ pc = IF single_user_id.some THEN "single" ELSE "dept"
    /\ err = "none"
    /\ idx = 1
    /\ n = 0
    /\ all_frames = <<>>
    /\ user_id = ""
    /\ faculty_name = <<>>
    /\ pubs_all = <<>>
    /\ cstart = 0
    /\ page = 0
    /\ i = 0
    /\ rows = <<>>
    /\ html = BlankPage
    /\ pw = None
    /\ out_csv = None
    /\ returned = EmptyDict
    /\ listReq = <<>>
    /\ applied = {}
    /\ started = <<>>
    /\ origin = EmptyDict
    /\ call = NoCall

(* ---------------- get_all_author_pubs: one iteration of the while loop ------- *)
Use(fn, body) == [fn |-> fn, body |-> body]

\* the slice s[:m]: the first m items, all of them when m exceeds the length;
\* a negative m counts from the end, so that s[:m] drops the last -m items
SliceTo(s, m) ==
    LET stop == IF m >= 0 THEN (IF m < Len(s) THEN m ELSE Len(s))
                ELSE (IF Len(s) + m > 0 THEN Len(s) + m ELSE 0)
    IN  SubSeq(s, 1, stop)

\* the loop body without "if not pubs: break"
PagerIteration_NoEmptyBreak(h, acc, cs, pg, maxp) ==
    IF looks_like_captcha(h)
    THEN [raised |-> TRUE, done |-> TRUE, pubs_all |-> acc, cstart |-> cs, page |-> pg,
          applied |-> {}]
    ELSE
    LET pubs == parse_author_page_for_pubs(h)
        all == acc \o pubs
        parsed == {Use("parse_author_page_for_pubs", h)}
    IN  IF maxp.some /\ Len(all) >= maxp.v
        THEN [raised |-> FALSE, done |-> TRUE, pubs_all |-> SliceTo(all, maxp.v),
              cstart |-> cs, page |-> pg, applied |-> parsed]
        ELSE IF ~next_cstart_from_author_page(h).some
        THEN [raised |-> FALSE, done |-> TRUE, pubs_all |-> all, cstart |-> cs,
              page |-> pg,
              applied |-> parsed \cup {Use("next_cstart_from_author_page", h)}]
        ELSE [raised |-> FALSE, done |-> pg + 1 > SafetyPages, pubs_all |-> all,
              cstart |-> cs + PageSize, page |-> pg + 1,
              applied |-> parsed \cup {Use("next_cstart_from_author_page", h)}]

\* the loop body with the stubs of a new page put before the collected ones
PagerIteration_NewestFirst(h, acc, cs, pg, maxp) ==
    IF looks_like_captcha(h)
    THEN [raised |-> TRUE, done |-> TRUE, pubs_all |-> acc, cstart |-> cs, page |-> pg,
          applied |-> {}]
    ELSE
    LET pubs == parse_author_page_for_pubs(h)
        all == pubs \o acc
        parsed == {Use("parse_author_page_for_pubs", h)}
    IN  IF pubs = <<>>
        THEN [raised |-> FALSE, done |-> TRUE, pubs_all |-> acc, cstart |-> cs,
              page |-> pg, applied |-> parsed]
        ELSE IF maxp.some /\ Len(all) >= maxp.v
        THEN [raised |-> FALSE, done |-> TRUE, pubs_all |-> SliceTo(all, maxp.v),
              cstart |-> cs, page |-> pg, applied |-> parsed]
        ELSE IF ~next_cstart_from_author_page(h).some
        THEN [raised |-> FALSE, done |-> TRUE, pubs_all |-> all, cstart |-> cs,
              page |-> pg,
              applied |-> parsed \cup {Use("next_cstart_from_author_page", h)}]
        ELSE [raised |-> FALSE, done |-> pg + 1 > SafetyPages, pubs_all |-> all,
              cstart |-> cs + PageSize, page |-> pg + 1,
              applied |-> parsed \cup {Use("next_cstart_from_author_page", h)}]

\* after cache_get returned h: the check, the parse and the decisions of the loop
\* body. acc, cs, pg are pubs_all, cstart and page before the iteration
PagerIteration(h, acc, cs, pg, maxp) ==
    IF looks_like_captcha(h)
    THEN [raised |-> TRUE, done |-> TRUE, pubs_all |-> acc, cstart |-> cs, page |-> pg,
          applied |-> {}]
    ELSE
    LET pubs == parse_author_page_for_pubs(h)
        all == acc \o pubs
        parsed == {Use("parse_author_page_for_pubs", h)}
    IN  IF pubs = <<>>
        THEN [raised |-> FALSE, done |-> TRUE, pubs_all |-> acc, cstart |-> cs,
              page |-> pg, applied |-> parsed]
        ELSE IF maxp.some /\ Len(all) >= maxp.v
        THEN [raised |-> FALSE, done |-> TRUE, pubs_all |-> SliceTo(all, maxp.v),
              cstart |-> cs, page |-> pg, applied |-> parsed]
        ELSE IF ~next_cstart_from_author_page(h).some
        THEN [raised |-> FALSE, done |-> TRUE, pubs_all |-> all, cstart |-> cs,
              page |-> pg,
              applied |-> parsed \cup {Use("next_cstart_from_author_page", h)}]
        ELSE [raised |-> FALSE, done |-> pg + 1 > SafetyPages, pubs_all |-> all,
              cstart |-> cs + PageSize, page |-> pg + 1,
              applied |-> parsed \cup {Use("next_cstart_from_author_page", h)}]

(* ---------------- process_one_professor: one iteration of the for loop ------- *)
\* extract_cites_by_year_playwright on what the browser loaded (loaded.status is
\* "error" when page.goto raised)
extract_cites_by_year_playwright(loaded) ==
    IF loaded.status # "ok"
    THEN [raised |-> TRUE, err |-> "render", cites |-> EmptyDict, applied |-> {}]
    ELSE IF rendered_blocked(loaded.body)
    THEN [raised |-> TRUE, err |-> "blocked", cites |-> EmptyDict, applied |-> {}]
    ELSE [raised |-> FALSE, err |-> "none", cites |-> RenderedScan(loaded.body),
          applied |-> {Use("rendered_scan", loaded.body)}]

Department == "CS"

\* lines 364-386: the row built from the stub p, the parsed detail page and the
\* series of the rendered page
MergeRow(p, parsed, cites_by_year, user, name) ==
    LET pub_year == IF TruthyInt(parsed.pub_year) THEN parsed.pub_year ELSE p.year
        cited_total == IF ~parsed.cited_by_total.some THEN p.cited_by_from_list
                       ELSE parsed.cited_by_total
        cites_src == IF cites_by_year # EmptyDict THEN cites_by_year
                     ELSE parsed.cites_by_year
    IN  [department |-> Department,
         faculty_name |-> name,
         title |-> IF TruthyStr(parsed.title) THEN parsed.title ELSE Some(p.title),
         publication_year |-> pub_year,
         cited_by_total |-> cited_total,
         citations_per_year_proxy |->
             citations_per_year_proxy(cited_total, pub_year, YEAR_MAX),
         abstract |-> parsed.abstract,
         scholar_user_id |-> user,
         view_citation_url |-> p.view_citation_url,
         cites |-> cites_2015_2026(cites_src)]

\* lines 359-386, after cache_get returned h: the rendered load, the check of h,
\* the parse and the merge
PubIteration(h, loaded, p, user, name) ==
    LET x == extract_cites_by_year_playwright(loaded)
    IN  IF x.raised
        THEN [raised |-> TRUE, err |-> x.err, row |-> <<>>, applied |-> x.applied,
              pw |-> IF loaded.status = "ok" THEN Some(loaded.body) ELSE None]
        ELSE IF looks_like_captcha(h)
        THEN [raised |-> TRUE, err |-> "blocked", row |-> <<>>, applied |-> x.applied,
              pw |-> Some(loaded.body)]
        ELSE [raised |-> FALSE, err |-> "none",
              row |-> <<MergeRow(p, parse_view_citation(h), x.cites, user, name)>>,
              applied |-> x.applied \cup {Use("parse_view_citation", h)},
              pw |-> Some(loaded.body)]

\* the filter without the isna() alternative: a row with no year is dropped
RECURSIVE HorizonFilter_DropAbsent(_)
HorizonFilter_DropAbsent(rs) ==
    IF rs = <<>> THEN <<>>
    ELSE LET y == Head(rs).publication_year
         IN  (IF y.some /\ y.v >= YEAR_MIN /\ y.v <= YEAR_MAX
              THEN <<Head(rs)>> ELSE <<>>) \o HorizonFilter_DropAbsent(Tail(rs))

\* the filter followed by a sort that puts the last row first
RECURSIVE HorizonFilter_Reversed(_)
HorizonFilter_Reversed(rs) ==
    IF rs = <<>> THEN <<>>
    ELSE LET y == Head(rs).publication_year
         IN  HorizonFilter_Reversed(Tail(rs))
             \o (IF ~y.some \/ (y.v >= YEAR_MIN /\ y.v <= YEAR_MAX)
                 THEN <<Head(rs)>> ELSE <<>>)

\* line 389: the rows kept by the horizon filter
RECURSIVE HorizonFilter(_)
HorizonFilter(rs) ==
    IF rs = <<>> THEN <<>>
    ELSE LET y == Head(rs).publication_year
         IN  (IF ~y.some \/ (y.v >= YEAR_MIN /\ y.v <= YEAR_MAX)
              THEN <<Head(rs)>> ELSE <<>>) \o HorizonFilter(Tail(rs))

(* ---------------- process_department_csv: the roster loop ---------------- *)
\* lines 409-421: the entry is skipped
Skipped(r) ==
    \/ Strip(PyStr(r.name)) = <<>>
    \/ r.url.type = "float"
    \/ r.url.type # "str" \/ r.url.s = <<>>
    \/ ~scholar_author_id_from_url(r.url).some

AtEntry ==
    /\ pc = "dept"
    /\ idx <= Len(roster)
    /\ ~(max_faculty.some /\ n >= max_faculty.v)

\* the loop ends: the roster is exhausted or max_faculty is reached
LeaveLoop ==
    /\ pc = "dept"
    /\ idx > Len(roster) \/ (max_faculty.some /\ n >= max_faculty.v)
    /\ pc' = "write"
    /\ applied' = {}
    /\ UNCHANGED <<config, call, single_out_csv, origin,
                   cache, run, err, deptVars, pagerVars, i, rows, html, pw,
                   out_csv, returned, started>>

SkipEntry ==
    /\ AtEntry
    /\ Skipped(roster[idx])
    /\ idx' = idx + 1
    /\ applied' = {}
    /\ UNCHANGED <<config, call, single_out_csv, origin,
                   cache, run, pc, err, n, all_frames, user_id, faculty_name,
                   pagerVars, i, rows, html, pw, out_csv, returned, started>>

\* process_one_professor is called: get_all_author_pubs starts
StartProfessor ==
    /\ AtEntry
    /\ ~Skipped(roster[idx])
    /\ faculty_name' = Strip(PyStr(roster[idx].name))
    /\ user_id' = scholar_author_id_from_url(roster[idx].url).v
    /\ pc' = "pubs"
    /\ pubs_all' = <<>>
    /\ cstart' = 0
    /\ page' = 0
    /\ listReq' = <<>>
    /\ i' = 0
    /\ rows' = <<>>
    /\ started' = Append(started, idx)
    /\ applied' = {}
    /\ pw' = None
    /\ UNCHANGED <<config, call, single_out_csv, origin,
                   cache, run, err, idx, n, all_frames, html, out_csv,
                   returned>>

Fail(e) == pc' = "failed" /\ err' = e

\* one iteration of the while loop of get_all_author_pubs
ListingPage ==
    /\ pc = "pubs"
    /\ LET cache_path == CachePath("author_pages", user_id, cstart)
       IN  \E resp \in IF cache_path \in DOMAIN cache THEN {FailResp}
                       ELSE ListingResponses(user_id, cstart) :
             LET r == cache_get(resp, cache_path, FALSE, cache)
                 o == PagerIteration(r.html, pubs_all, cstart, page, max_pubs)
             IN  /\ cache' = r.cache
                 /\ returned' = Log(returned, cache_path, r)
                 /\ listReq' = Append(listReq, cstart)
                 /\ IF r.raised
                    THEN /\ Fail("transport")
                         /\ applied' = {}
                         /\ UNCHANGED <<html, pubs_all, cstart, page>>
                    ELSE /\ html' = r.html
                         /\ applied' = o.applied
                         /\ pubs_all' = o.pubs_all
                         /\ cstart' = o.cstart
                         /\ page' = o.page
                         /\ IF o.raised THEN Fail("blocked")
                            ELSE /\ err' = err
                                 /\ pc' = IF ~o.done THEN "pubs"
                                          ELSE IF o.pubs_all = <<>> THEN "frame"
                                          ELSE "detail"
    /\ UNCHANGED <<config, call, single_out_csv, origin,
                   run, deptVars, i, rows, pw, out_csv, started>>

\* one iteration of the for loop of process_one_professor
DetailPage ==
    /\ pc = "detail"
    /\ LET p == pubs_all[i + 1]
           url == p.view_citation_url
           cache_path == CachePath("view_pages", user_id, i)
       IN  \E resp \in IF cache_path \in DOMAIN cache \/ ~url.some THEN {FailResp}
                       ELSE DetailResponses(url.v) :
             LET r == cache_get(resp, cache_path, FALSE, cache)
             IN  /\ cache' = r.cache
                 /\ returned' = Log(returned, cache_path, r)
                 /\ origin' = IF r.net /\ ~r.raised
                               THEN DictPut(origin, cache_path, url.v) ELSE origin
                 /\ IF r.raised
                    THEN /\ Fail("transport")
                         /\ applied' = {}
                         /\ pw' = None
                         /\ UNCHANGED <<html, i, rows>>
                    ELSE \E loaded \in IF url.some THEN RenderedResponses(url.v)
                                       ELSE {FailResp} :
                           LET o == PubIteration(r.html, loaded, p, user_id, faculty_name)
                           IN  /\ html' = r.html
                               /\ pw' = o.pw
                               /\ applied' = o.applied
                               /\ rows' = rows \o o.row
                               /\ IF o.raised
                                  THEN Fail(o.err) /\ i' = i
                                  ELSE /\ err' = err
                                       /\ i' = i + 1
                                       /\ pc' = IF i + 1 < Len(pubs_all) THEN "detail"
                                                ELSE "frame"
    /\ UNCHANGED <<config, call, single_out_csv, run, deptVars, pagerVars, out_csv, started>>

\* the end of process_one_professor with the dataset so far written to out_csv
\* after each author
FinishProfessor_WritesPartial ==
    /\ pc = "frame"
    /\ ~single_user_id.some
    /\ IF rows = <<>>
       THEN /\ Fail("KeyError")
            /\ UNCHANGED <<all_frames, n, idx, out_csv>>
       ELSE /\ all_frames' = Append(all_frames, HorizonFilter(rows))
            /\ out_csv' = Some(Flatten(all_frames'))
            /\ n' = n + 1
            /\ idx' = idx + 1
            /\ pc' = "dept"
            /\ err' = err
    /\ applied' = {}
    /\ UNCHANGED <<config, call, single_out_csv, origin,
                   cache, run, user_id, faculty_name, pagerVars, i, rows,
                   html, pw, returned, started>>

\* lines 388-390 and 432-433: the DataFrame of the rows, the horizon filter, the
\* return, the append to all_frames. pd.DataFrame([]) has no column, and
\* df["publication_year"] raises KeyError on it
FinishProfessor ==
    /\ pc = "frame"
    /\ ~single_user_id.some
    /\ IF rows = <<>>
       THEN /\ Fail("KeyError")
            /\ UNCHANGED <<all_frames, n, idx>>
       ELSE /\ all_frames' = Append(all_frames, HorizonFilter(rows))
            /\ n' = n + 1
            /\ idx' = idx + 1
            /\ pc' = "dept"
            /\ err' = err
    /\ applied' = {}
    /\ UNCHANGED <<config, call, single_out_csv, origin,
                   cache, run, user_id, faculty_name, pagerVars, i, rows,
                   html, pw, out_csv, returned, started>>

\* main, lines 462-470: process_one_professor is called for the author of
\* --single_user_id under the name of --single_name; the roster is not read
StartSingle ==
    /\ pc = "single"
    /\ faculty_name' = single_name
    /\ user_id' = single_user_id.v
    /\ pc' = "pubs"
    /\ pubs_all' = <<>>
    /\ cstart' = 0
    /\ page' = 0
    /\ listReq' = <<>>
    /\ i' = 0
    /\ rows' = <<>>
    /\ applied' = {}
    /\ pw' = None
    /\ UNCHANGED <<config, call, origin, single_out_csv, cache, run, err, idx, n,
                   all_frames, html, out_csv, returned, started>>

\* lines 388-390 and main, lines 471-474: the DataFrame of the rows, the horizon
\* filter, the return to main and to_csv(single_out_csv)
FinishSingle ==
    /\ pc = "frame"
    /\ single_user_id.some
    /\ IF rows = <<>>
       THEN /\ Fail("KeyError")
            /\ UNCHANGED single_out_csv
       ELSE /\ single_out_csv' = Some(HorizonFilter(rows))
            /\ pc' = "done"
            /\ err' = err
    /\ applied' = {}
    /\ UNCHANGED <<config, call, origin, cache, run, deptVars, pagerVars, i, rows, html,
                   pw, out_csv, returned, started>>

\* lines 435-437: pd.concat and to_csv
WriteDataset ==
    /\ pc = "write"
    /\ out_csv' = Some(Flatten(all_frames))
    /\ pc' = "done"
    /\ applied' = {}
    /\ UNCHANGED <<config, call, single_out_csv, origin,
                   cache, run, err, deptVars, pagerVars, i, rows, html, pw,
                   returned, started>>

\* the script is invoked again on the same input, with the cache directory of
\* the earlier runs
NewRun ==
    /\ pc \in {"done", "failed"}
    /\ run < MaxRuns
    /\ run' = run + 1
    /\ pc' = IF single_user_id.some THEN "single" ELSE "dept"
    /\ single_out_csv' = None
    /\ err' = "none"
    /\ idx' = 1
    /\ n' = 0
    /\ all_frames' = <<>>
    /\ user_id' = ""
    /\ faculty_name' = <<>>
    /\ pubs_all' = <<>>
    /\ cstart' = 0
    /\ page' = 0
    /\ i' = 0
    /\ rows' = <<>>
    /\ html' = BlankPage
    /\ pw' = None
    /\ out_csv' = None
    /\ listReq' = <<>>
    /\ applied' = {}
    /\ started' = <<>>
    /\ UNCHANGED <<config, call, origin, cache, returned>>

Next ==
    \/ LeaveLoop
    \/ SkipEntry
    \/ StartProfessor
    \/ ListingPage
    \/ DetailPage
    \/ FinishProfessor
    \/ WriteDataset
    \/ StartSingle
    \/ FinishSingle
    \/ NewRun

Spec == Init /\ [][Next]_vars

(* ---------------- runs with another --max_pubs_per_faculty ---------------- *)
\* the script is invoked again on the same roster and cache directory, with any
\* value of --max_pubs_per_faculty and of --single_user_id
NewRunAnyArgs ==
    /\ pc \in {"done", "failed"}
    /\ run < MaxRuns
    /\ max_pubs' \in MaxPubsChoices
    /\ single_user_id' \in SingleUserIds
    /\ run' = run + 1
    /\ pc' = IF single_user_id'.some THEN "single" ELSE "dept"
    /\ single_out_csv' = None
    /\ err' = "none"
    /\ idx' = 1
    /\ n' = 0
    /\ all_frames' = <<>>
    /\ user_id' = ""
    /\ faculty_name' = <<>>
    /\ pubs_all' = <<>>
    /\ cstart' = 0
    /\ page' = 0
    /\ i' = 0
    /\ rows' = <<>>
    /\ html' = BlankPage
    /\ pw' = None
    /\ out_csv' = None
    /\ listReq' = <<>>
    /\ applied' = {}
    /\ started' = <<>>
    /\ UNCHANGED <<roster, max_faculty, call, origin, cache, returned>>

NextRerun ==
    \/ LeaveLoop
    \/ SkipEntry
    \/ StartProfessor
    \/ ListingPage
    \/ DetailPage
    \/ FinishProfessor
    \/ WriteDataset
    \/ StartSingle
    \/ FinishSingle
    \/ NewRunAnyArgs

SpecRerun == Init /\ [][NextRerun]_vars

(* ---------------- one paginator call on a listing that never ends ----------- *)
\* the roster is one author whose every listing page has one row and an enabled
\* next button; no max_pubs, no max_faculty
InitEndless ==
    /\ roster = EndlessRoster
    /\ max_faculty = None
    /\ max_pubs = None
    /\ single_user_id = None
    /\ single_out_csv = None
    /\ cache = EmptyDict
    /\ run = 1
    /\ pc = "dept"
    /\ err = "none"
    /\ idx = 1
    /\ n = 0
    /\ all_frames = <<>>
    /\ user_id = ""
    /\ faculty_name = <<>>
    /\ pubs_all = <<>>
    /\ cstart = 0
    /\ page = 0
    /\ i = 0
    /\ rows = <<>>
    /\ html = BlankPage
    /\ pw = None
    /\ out_csv = None
    /\ returned = EmptyDict
    /\ listReq = <<>>
    /\ applied = {}
    /\ started = <<>>
    /\ origin = EmptyDict
    /\ call = NoCall

NextEndless == StartProfessor \/ ListingPage

SpecEndless == InitEndless /\ [][NextEndless]_vars

(* ---------------- single calls of the pure functions ---------------- *)
\* the pipeline is not running: only the function named by call is applied
pipeline == <<roster, max_faculty, max_pubs, single_user_id, single_out_csv, cache,
              run, pc, err, idx, n, all_frames,
              user_id, faculty_name, pubs_all, cstart, page, i, rows, html, pw,
              out_csv, returned, listReq, applied, started>>

Idle ==
    /\ roster = <<>>
    /\ max_faculty = None
    /\ max_pubs = None
    /\ single_user_id = None
    /\ single_out_csv = None
    /\ cache = EmptyDict
    /\ run = 1
    /\ pc = "call"
    /\ err = "none"
    /\ idx = 1
    /\ n = 0
    /\ all_frames = <<>>
    /\ user_id = ""
    /\ faculty_name = <<>>
    /\ pubs_all = <<>>
    /\ cstart = 0
    /\ page = 0
    /\ i = 0
    /\ rows = <<>>
    /\ html = BlankPage
    /\ pw = None
    /\ out_csv = None
    /\ returned = EmptyDict
    /\ listReq = <<>>
    /\ applied = {}
    /\ started = <<>>
    /\ origin = EmptyDict

\* how far beyond the horizon the publication years of the calls go
YearSlack == 2

\* the arguments of citations_per_year_proxy(total_cites, pub_year, now_year)
InitProxy ==
    /\ Idle
    /\ \E t \in {None} \cup {Some(c) : c \in {0, 10, 100}},
          y \in {None} \cup {Some(v) : v \in (YEAR_MIN - YearSlack)..(YEAR_MAX + YearSlack)},
          now \in {YEAR_MAX - 1, YEAR_MAX} :
          call = [fn |-> "citations_per_year_proxy", total_cites |-> t, pub_year |-> y,
                  now_year |-> now, made |-> FALSE, result |-> None]

CallProxy ==
    /\ call.fn = "citations_per_year_proxy"
    /\ ~call.made
    /\ call' = [call EXCEPT !.made = TRUE,
                            !.result = citations_per_year_proxy(call.total_cites,
                                                                call.pub_year,
                                                                call.now_year)]
    /\ UNCHANGED <<pipeline, origin>>

SpecProxy == InitProxy /\ [][CallProxy]_vars

\* detail pages for single calls of parse_view_citation: each title element
\* present or not, the source with no, one or two [[y,c],...] blobs, and with
\* years= / cites= arrays of several lengths
PairBlobChoices ==
    { <<>>,
      << <<<<"2014", "0">>>> >>,
      << <<<<"2020", "12">>, <<"2021", "1">>>> >>,
      << <<<<"2014", "0">>>>, <<<<"2020", "3">>, <<"2020", "7">>>>,
         <<<<"2021", "1">>, <<"2022", "10">>>> >> }

ParseBodies ==
    { [BlankPage EXCEPT !.title_id = a, !.title_link = b, !.pair_blobs = pb,
                        !.years_blob = yb, !.cites_blob = cb] :
        a \in {None, Some("By id")}, b \in {None, Some("By link")},
        pb \in PairBlobChoices,
        yb \in {None, Some(<<"2019">>), Some(<<"2019", "2020">>),
                Some(<<"2019", "2020", "2021">>)},
        cb \in {None, Some(<<"3">>), Some(<<"3", "7">>)} }

InitParse ==
    /\ Idle
    /\ \E h \in ParseBodies :
          call = [fn |-> "parse_view_citation", html |-> h, made |-> FALSE,
                  result |-> None]

CallParse ==
    /\ call.fn = "parse_view_citation"
    /\ ~call.made
    /\ call' = [call EXCEPT !.made = TRUE, !.result = parse_view_citation(call.html)]
    /\ UNCHANGED <<pipeline, origin>>

SpecParse == InitParse /\ [][CallParse]_vars

(* ======================= the claims ======================= *)

\* C3: one call of get_all_author_pubs on a listing whose every page has a row
\* and an enabled next button, without max_pubs, requests at most 500 listing
\* pages, the last at offset 49900, and then returns.
C3_AtMost500Pages ==
    /\ Len(listReq) <= SafetyPages
    /\ \A k \in 1..Len(listReq) : listReq[k] <= (SafetyPages - 1) * PageSize

\* the body the paginator call in progress got for its k-th request, if it got one
ListedPath(k) == CachePath("author_pages", user_id, listReq[k])
Listed(k) == LoadBody(cache[ListedPath(k)])
YieldsNoRows(k) ==
    /\ ListedPath(k) \in DOMAIN cache
    /\ ~looks_like_captcha(Listed(k))
    /\ parse_author_page_for_pubs(Listed(k)) = <<>>

RECURSIVE RowsOfPages(_)
RowsOfPages(k) ==
    IF k = 0 THEN <<>>
    ELSE RowsOfPages(k - 1) \o parse_author_page_for_pubs(Listed(k))

\* C1: no cache entry holds a body that looks_like_captcha classifies as blocked,
\* in any state of any run, aborted runs included.
C1_NoBlockedBodyCached ==
    \A f \in DOMAIN cache : ~looks_like_captcha(LoadBody(cache[f]))

\* C2: if the listing page of pagination step N yields zero stub rows, the
\* paginator call ends at that page: N is its last request (the page at the next
\* offset is never requested), the loop is left, and pubs_all is the stubs of
\* the pages before N.
C2_StopsAtEmptyPage ==
    \A k \in 1..Len(listReq) :
        YieldsNoRows(k) =>
            /\ k = Len(listReq)
            /\ pc # "pubs"
            /\ pubs_all = RowsOfPages(k - 1)

\* a paginator call ended at an empty second page, after a first page with rows
C2_Witness ==
    /\ Len(listReq) = 2
    /\ YieldsNoRows(2)
    /\ Listed(2).next = "enabled"
    /\ Len(pubs_all) = 2
    /\ pc = "detail"

\* C4: two successive cache_get calls on one key without force, the first one
\* fetching successfully: the second makes no network request and returns the
\* body the first returned.
C4_SecondCallSameBody ==
    \A f \in DOMAIN returned :
        \A k \in 1..(Len(returned[f]) - 1) :
            returned[f][k].net =>
                /\ ~returned[f][k + 1].net
                /\ returned[f][k + 1].html = returned[f][k].html

\* the check the code applies to the input of an extraction function
BlockedFor(e) ==
    IF e.fn = "rendered_scan" THEN rendered_blocked(e.body)
    ELSE looks_like_captcha(e.body)

\* C5: whenever a body that was retrieved (a listing or detail body returned
\* by cache_get, or the page the browser loaded) matches an anti-automation
\* marker, the run ends with the blocked error, no extraction function is
\* applied to that body and no record is built from it.
C5_BlockFailFast ==
    /\ \A e \in applied : ~BlockedFor(e)
    /\ looks_like_captcha(html) =>
          /\ pc = "failed"
          /\ err = "blocked"
          /\ Len(rows) = i
    /\ (pw.some /\ rendered_blocked(pw.v)) =>
          /\ pc = "failed"
          /\ err = "blocked"
          /\ Len(rows) = i

\* C6: the rendered page of a publication is loaded only when
\* parse_view_citation of its detail body gives an empty series.
C6_RenderedOnlyIfPrimaryEmpty ==
    pw.some => parse_view_citation(html).cites_by_year = EmptyDict

\* C7: an author whose first listing page has no rows is not an error: the run
\* does not fail on that author.
C7_EmptyListingNoError ==
    (Len(listReq) = 1 /\ YieldsNoRows(1) /\ pc # "pubs") => err = "none"

\* C8: the row merged from a stub and its parsed detail page takes the detail
\* title, year and total when present, else the stub's.
C8_MergePrecedence ==
    (pc \in {"detail", "frame"} /\ rows # <<>>) =>
        LET row == rows[Len(rows)]
            p == pubs_all[Len(rows)]
            d == parse_view_citation(html)
        IN  /\ row.title = (IF d.title.some THEN d.title ELSE Some(p.title))
            /\ row.publication_year = (IF d.pub_year.some THEN d.pub_year ELSE p.year)
            /\ row.cited_by_total = (IF d.cited_by_total.some THEN d.cited_by_total
                                     ELSE p.cited_by_from_list)

\* C9: a step in which the request of cache_get fails ends the run with that
\* error and leaves every cache entry as it was, none added.
C9_FailedFetchKeepsCache ==
    [][(err = "none" /\ err' = "transport") => (pc' = "failed" /\ cache' = cache)]_vars

\* a fetch failed after entries had been written
C9_Witness ==
    /\ pc = "failed"
    /\ err = "transport"
    /\ Cardinality(DOMAIN cache) >= 2

\* the entries the specification says are skipped
Skippable(r) ==
    \/ r.name.type = "float"
    \/ Strip(PyStr(r.name)) = <<>>
    \/ r.url.type = "float"
    \/ r.url.s = <<>>
    \/ ~scholar_author_id_from_url(r.url).some

\* C10: process_one_professor is never called for a roster entry with a blank or
\* missing name, a blank or absent URL, or a URL without a profile id.
C10_SkippableNeverProcessed ==
    \A k \in 1..Len(started) : ~Skippable(roster[started[k]])

\* the record has no publication year, or one inside the horizon
InHorizon(r) ==
    \/ ~r.publication_year.some
    \/ (2015 <= r.publication_year.v /\ r.publication_year.v <= 2026)

\* process_one_professor has returned the dataset of the author whose merged
\* records are rows; the dataset is the last frame of all_frames or, for the
\* author of --single_user_id, the rows of single_out_csv
Returned == pc \in {"dept", "write", "done"} /\ rows # <<>>

\* C11: the dataset process_one_professor returns for an author with at least
\* one stub holds exactly the merged records whose publication year is absent
\* or between 2015 and 2026: every record outside the horizon is dropped, every
\* other record is kept, once each and in place
C11_HorizonFilterExact ==
    Returned =>
        LET df == IF single_user_id.some THEN single_out_csv.v
                  ELSE all_frames[Len(all_frames)]
            kept == {k \in 1..Len(rows) : InHorizon(rows[k])}
        IN  /\ Len(df) = Cardinality(kept)
            /\ \A k \in kept : df[Cardinality({j \in kept : j <= k})] = rows[k]

\* an author with a record of 2014, dropped, beside records that are kept
C11_Witness ==
    /\ Returned
    /\ ~single_user_id.some
    /\ \E k \in 1..Len(rows) :
          /\ rows[k].publication_year.some
          /\ rows[k].publication_year.v < 2015
    /\ all_frames[Len(all_frames)] # <<>>
    /\ Len(all_frames[Len(all_frames)]) < Len(rows)

\* C12: every stub the paginator returns has a detail URL: a listing row without
\* a title link or without an href is skipped, so the stub whose detail page
\* process_one_professor is about to fetch always has one
C12_StubsHaveDetailUrl ==
    /\ \A k \in 1..Len(pubs_all) : pubs_all[k].view_citation_url.some
    /\ (pc = "detail" => pubs_all[i + 1].view_citation_url.some)

\* C13: citations_per_year_proxy is absent exactly when total or year is
\* absent; otherwise it is total / max(now_year - year + 1, 1), so that
\* total = 100, year = 2020, now = 2026 gives 100/7 and total = 10, year = 2027,
\* now = 2026 gives 10/1
C13_ProxyValue ==
    call.made =>
        LET t == call.total_cites
            y == call.pub_year
            span == call.now_year - y.v + 1
        IN  /\ (call.result = None) <=> (t = None \/ y = None)
            /\ (t.some /\ y.some) =>
                   call.result = Some(<<t.v, IF span > 1 THEN span ELSE 1>>)
            /\ (t = Some(100) /\ y = Some(2020) /\ call.now_year = 2026) =>
                   call.result = Some(<<100, 7>>)
            /\ (t = Some(10) /\ y = Some(2027) /\ call.now_year = 2026) =>
                   call.result = Some(<<10, 1>>)

\* the call of the second example has been made: a year after now_year
C13_Witness ==
    /\ call.made
    /\ call.total_cites = Some(10)
    /\ call.pub_year = Some(2027)
    /\ call.now_year = 2026
    /\ call.result = Some(<<10, 1>>)

\* the stubs of author u in discovery order, read from the listing pages the
\* cache holds for u: page order, then row order
RECURSIVE DiscoveredFrom(_, _)
DiscoveredFrom(u, k) ==
    LET f == CachePath("author_pages", u, k * PageSize)
    IN  IF f \notin DOMAIN cache THEN <<>>
        ELSE (IF looks_like_captcha(LoadBody(cache[f])) THEN <<>>
              ELSE parse_author_page_for_pubs(LoadBody(cache[f])))
             \o DiscoveredFrom(u, k + 1)

\* the positions of output row r among the stubs of its author
StubPos(r) ==
    LET d == DiscoveredFrom(r.scholar_user_id, 0)
    IN  {j \in 1..Len(d) : d[j].view_citation_url = r.view_citation_url}

\* the roster positions of the author of output row r
AuthorPos(r) ==
    {started[j] : j \in 1..Len(started)}
    \cap {k \in 1..Len(roster) :
            scholar_author_id_from_url(roster[k].url) = Some(r.scholar_user_id)}

\* C14: in the written dataset the rows of one author are in stub discovery
\* order (page order, then row order) and the blocks of the authors are in
\* roster order: of two rows, the earlier one belongs to an earlier roster
\* entry, or to the same entry and an earlier stub
C14_OutputOrder ==
    out_csv.some =>
        \A a, b \in 1..Len(out_csv.v) :
            a < b =>
                \E ka \in AuthorPos(out_csv.v[a]), kb \in AuthorPos(out_csv.v[b]) :
                    \/ ka < kb
                    \/ /\ ka = kb
                       /\ \E ja \in StubPos(out_csv.v[a]), jb \in StubPos(out_csv.v[b]) :
                             ja < jb

\* a dataset with two rows of one author followed by a row of another
C14_Witness ==
    /\ out_csv.some
    /\ Len(out_csv.v) >= 3
    /\ out_csv.v[1].scholar_user_id = out_csv.v[2].scholar_user_id
    /\ out_csv.v[2].scholar_user_id # out_csv.v[Len(out_csv.v)].scholar_user_id

\* the series written by blob, a sequence of <<year, count>> pairs: a later
\* pair of a year replaces an earlier one
SeriesOfPairs(blob) ==
    [y \in {IntOf[blob[k][1]] : k \in 1..Len(blob)} |->
        IntOf[blob[CHOOSE k \in 1..Len(blob) :
                      /\ IntOf[blob[k][1]] = y
                      /\ \A j \in (k + 1)..Len(blob) : IntOf[blob[j][1]] # y][2]]]

\* the series written by the arrays years and cites, paired position by position
SeriesOfArrays(years, cites) ==
    LET m == IF Len(years) <= Len(cites) THEN Len(years) ELSE Len(cites)
    IN  [y \in {IntOf[years[k]] : k \in 1..m} |->
            IntOf[cites[CHOOSE k \in 1..m :
                           /\ IntOf[years[k]] = y
                           /\ \A j \in (k + 1)..m : IntOf[years[j]] # y]]]

\* C15: when the source of a detail page holds both a [[year,count],...]
\* structure of two pairs at least (a) and years= / cites= arrays (b), the
\* series parse_view_citation returns is exactly the pairs of (a) and (b) adds
\* nothing; (b) is used only when (a) does not match; when neither matches the
\* series is empty
C15_PatternPrecedence ==
    call.made =>
        LET h == call.html
            s == call.result.cites_by_year
            a == {k \in 1..Len(h.pair_blobs) : Len(h.pair_blobs[k]) >= 2}
            b == /\ h.years_blob.some /\ h.cites_blob.some
                 /\ Len(h.years_blob.v) >= 2 /\ Len(h.cites_blob.v) >= 2
        IN  /\ a # {} =>
                 s = SeriesOfPairs(h.pair_blobs[CHOOSE k \in a : \A j \in a : k <= j])
            /\ (a = {} /\ b) => s = SeriesOfArrays(h.years_blob.v, h.cites_blob.v)
            /\ (a = {} /\ ~b) => DOMAIN s = {}

\* a page with both structures has been parsed, and the two disagree
C15_Witness ==
    /\ call.made
    /\ call.html.pair_blobs = << <<<<"2020", "12">>, <<"2021", "1">>>> >>
    /\ call.html.years_blob = Some(<<"2019", "2020">>)
    /\ call.html.cites_blob = Some(<<"3", "7">>)
    /\ DOMAIN call.result.cites_by_year = {2020, 2021}
    /\ call.result.cites_by_year[2020] = 12

\* C16: when #gsc_oci_title is absent and .gsc_oci_title_link is present,
\* parse_view_citation returns the title of the link; the title is absent only
\* when both elements are absent
C16_TitleFallback ==
    call.made =>
        /\ (~call.html.title_id.some /\ call.html.title_link.some) =>
               call.result.title = call.html.title_link
        /\ (call.result.title = None) <=>
               (~call.html.title_id.some /\ ~call.html.title_link.some)

\* a page with the link element only has been parsed
C16_Witness ==
    /\ call.made
    /\ call.html.title_id = None
    /\ call.html.title_link = Some("By link")
    /\ call.result.title = Some("By link")

\* the stubs on the first k listing pages the paginator call in progress asked
\* for, in discovery order; a request that failed or a blocked page gives none
RECURSIVE StubsListed(_)
StubsListed(k) ==
    IF k = 0 THEN <<>>
    ELSE StubsListed(k - 1)
         \o (IF ListedPath(k) \in DOMAIN cache /\ ~looks_like_captcha(Listed(k))
             THEN parse_author_page_for_pubs(Listed(k)) ELSE <<>>)

\* the detail pages fetched so far for the current author
DetailFetched == {f \in DOMAIN cache : f.tree = "view_pages" /\ f.user = user_id}

\* the paginator call of the current author has returned its stubs
PagerReturned == pc \in {"detail", "frame"}

\* C17: with max_pubs configured, get_all_author_pubs returns at most max_pubs
\* stubs, they are the first ones in discovery order, no listing page is
\* requested after a page with which the count reached max_pubs, and at most
\* max_pubs detail pages are fetched for the author
C17_MaxPubs ==
    max_pubs.some =>
        LET d == StubsListed(Len(listReq))
        IN  /\ PagerReturned =>
                  /\ Len(pubs_all) <= max_pubs.v
                  /\ pubs_all = SubSeq(d, 1, IF Len(d) < max_pubs.v THEN Len(d)
                                             ELSE max_pubs.v)
                  /\ i <= max_pubs.v
                  /\ Cardinality(DetailFetched) <= max_pubs.v
            /\ \A k \in 1..(Len(listReq) - 1) : Len(StubsListed(k)) < max_pubs.v

\* the cache key of the cache_get call the next step of the run makes
FetchPath ==
    IF pc = "pubs" THEN CachePath("author_pages", user_id, cstart)
    ELSE CachePath("view_pages", user_id, i)

\* the number of successful cache_get calls logged for key f
Calls(hist, f) == IF f \in DOMAIN hist THEN Len(hist[f]) ELSE 0

\* C18: the pipeline never forces a refetch, so in every step of every run each
\* existing cache entry keeps its body, a successful call on a key that has an
\* entry makes no network request, and no request fails on such a key (none is
\* made)
C18_EntriesNeverOverwritten ==
    [][/\ \A f \in DOMAIN cache : f \in DOMAIN cache' /\ cache'[f] = cache[f]
       /\ \A f \in DOMAIN cache :
             Calls(returned', f) > Calls(returned, f) =>
                 ~returned'[f][Calls(returned', f)].net
       /\ (err = "none" /\ err' = "transport") => FetchPath \notin DOMAIN cache]_vars

\* in a second run a call was served from an entry written by the first
C18_Witness ==
    /\ run = 2
    /\ \E f \in DOMAIN returned :
          /\ Len(returned[f]) >= 2
          /\ returned[f][1].net
          /\ ~returned[f][2].net

\* C19 as stated: the dataset is written only after every roster entry has been
\* processed, and a run that an error ended has written nothing
C19_WrittenAfterWholeRoster ==
    /\ pc = "failed" => out_csv = None
    /\ out_csv.some => idx > Len(roster)

\* C19, amended: the dataset is written at most once per run and only after the
\* roster loop has ended without an error, which is when every roster entry has
\* been processed or skipped or when max_faculty authors have been processed; a
\* run that an error ended has written nothing, whatever authors it completed
C19_PersistedOnceAtEnd ==
    /\ [](/\ pc = "failed" => out_csv = None
          /\ out_csv.some =>
                /\ pc = "done"
                /\ err = "none"
                /\ idx > Len(roster) \/ (max_faculty.some /\ n >= max_faculty.v))
    /\ [][out_csv.some => (out_csv' = out_csv \/ (out_csv' = None /\ run' = run + 1))]_vars

\* a blocked or transport error after an author was completed: nothing written
C19_Witness ==
    /\ pc = "failed"
    /\ err \in {"blocked", "transport"}
    /\ all_frames # <<>>
    /\ all_frames[1] # <<>>
    /\ out_csv = None

\* C20: the block classification is the same in both retrieval modes: on every
\* body, here the body the browser rendered for the current publication,
\* looks_like_captcha and the check of extract_cites_by_year_playwright give the
\* same verdict
C20_SameVerdict ==
    pw.some => (rendered_blocked(pw.v) <=> looks_like_captcha(pw.v))

\* the cache entry of the detail page of the k-th stub of the current author
DetailPath(k) == CachePath("view_pages", user_id, k - 1)

\* body b, or b after the cache file round trip, is an answer of the server for
\* the detail URL url
FetchedFrom(b, url) ==
    \E resp \in DetailResponses(url) :
        /\ resp.status = "ok"
        /\ b \in {resp.body, LoadBody(StoreBody(resp.body))}

\* C21: detail bodies are cached under the index of the stub, and still, over
\* runs with any max_pubs and runs aborted part-way, the entry under the index
\* of a stub of the current author was fetched from the detail URL of that
\* stub, and every body cache_get returned for it is an answer for that URL
C21_DetailEntryOfOwnUrl ==
    \A k \in 1..Len(pubs_all) :
        DetailPath(k) \in DOMAIN cache =>
            /\ pubs_all[k].view_citation_url = Some(origin[DetailPath(k)])
            /\ FetchedFrom(LoadBody(cache[DetailPath(k)]), origin[DetailPath(k)])
            /\ \A j \in 1..Len(returned[DetailPath(k)]) :
                  FetchedFrom(returned[DetailPath(k)][j].html, origin[DetailPath(k)])

\* a second run with a longer list of stubs than the first: the first run
\* stopped at max_pubs after the first listing page and fetched the detail page
\* of stub 1; the second run asked for the second listing page, was served the
\* detail page of stub 1 from the cache and fetched that of stub 2
C21_Witness ==
    /\ run = 2
    /\ user_id = "u1"
    /\ Len(pubs_all) = 3
    /\ LET p0 == CachePath("author_pages", "u1", 0)
           p1 == CachePath("author_pages", "u1", PageSize)
       IN  /\ p0 \in DOMAIN returned /\ Len(returned[p0]) = 2
           /\ p1 \in DOMAIN returned /\ Len(returned[p1]) = 1
    /\ DetailPath(1) \in DOMAIN returned
    /\ Len(returned[DetailPath(1)]) = 2
    /\ ~returned[DetailPath(1)][2].net
    /\ DetailPath(2) \in DOMAIN returned
    /\ returned[DetailPath(2)][1].net

====
